---- MODULE Spec2Model ----
(***************************************************************************)
(* State machine of zaruba's session / connection coordination layer       *)
(* (src/zaruba.py.py): the in-memory session store, the WebSocket          *)
(* connection manager, the HTTP handlers register / login / end_session,   *)
(* the per-connection WebSocket handler and the hourly clean-up task.       *)
(*                                                                         *)
(* The handlers are asyncio coroutines on one event loop: code between two *)
(* awaits runs atomically, and every await on a socket (accept, send_text, *)
(* receive) is a point where the other coroutines may run.  One action of  *)
(* the model is the code from one resumption to the next suspension.       *)
(*                                                                         *)
(* Names are sequences of one-character strings, so that str.strip() is    *)
(* computed and not assumed.  Time is counted in whole hours.              *)
(***************************************************************************)
EXTENDS Integers, Sequences, FiniteSets, TLC

VARIABLES
    active_sessions,     \* dict session_id -> session record
    active_connections,  \* manager.active_connections: dict session_id -> list of sockets
    now,                 \* datetime.utcnow(), in hours since process start
    sweeper_wake,        \* the hour at which the clean-up task's sleep(3600) ends
    reply,               \* the response of the last register / login request
    ws,                  \* per WebSocket: the handler coroutine and the client's end
    es                   \* per end_session request: the handler coroutine

vars == <<active_sessions, active_connections, now, sweeper_wake, reply, ws, es>>

----------------------------------------------------------------------------
(* Bounds of the model *)

NumProducts == 2     \* length of the modelled prefix of PRODUCT_LIST
MaxScore == 1        \* scores of a payload are 0..MaxScore
RegHorizon == 1      \* hours the clock runs in the registration specification
NumSockets == 2      \* WebSocket connections of the interleaving specification
NumEnders == 2       \* end_session requests of the interleaving specification

(* Program constants *)

TTL_HOURS == 15      \* timedelta(hours=15)
SLEEP_HOURS == 1     \* asyncio.sleep(3600)

LongHorizon == TTL_HOURS + SLEEP_HOURS + 1

----------------------------------------------------------------------------
(* Names and str.strip() *)

SP == " "

RECURSIVE LStrip(_)
LStrip(s) == IF s # <<>> /\ Head(s) = SP THEN LStrip(Tail(s)) ELSE s

RECURSIVE RStrip(_)
RStrip(s) ==
    IF s # <<>> /\ s[Len(s)] = SP THEN RStrip(SubSeq(s, 1, Len(s) - 1)) ELSE s

Strip(s) == RStrip(LStrip(s))

Alice == <<"a">>
Bob == <<"b">>
Carol == <<"c">>

Names == {Alice, Bob, Carol}

\* what a client may put into a name field of a request body
RawNames == Names \cup {<<>>, <<SP>>, <<SP, "b">>, <<"a", SP>>}

----------------------------------------------------------------------------
(* Product catalog *)

AllProducts ==
    <<"DK", "KK", "KomboKrossKK", "CP", "GosUvedomleniya", "Smart", "Keshbek",
      "ZhKU", "BS", "BSsoStrategiey", "Investkopilka", "Tokenizaciya",
      "NakopitelnyySchet", "Vklad", "DetskayaKross", "SimKarta",
      "PerevodPensii", "SelfiDK", "SelfiKK">>

PRODUCT_LIST == SubSeq(AllProducts, 1, NumProducts)

Products == {PRODUCT_LIST[i] : i \in 1..Len(PRODUCT_LIST)}

\* {product: 0 for product in PRODUCT_LIST}
ZeroScores == [p \in Products |-> 0]

\* payloads of an update_score command: some products, each with one score
Payloads == {[p \in D |-> v] : D \in SUBSET Products, v \in 1..MaxScore}

----------------------------------------------------------------------------
(* Python dict and list helpers *)

DictDel(d, k) == [x \in DOMAIN d \ {k} |-> d[x]]

DictSet(d, k, v) == [x \in DOMAIN d \cup {k} |-> IF x = k THEN v ELSE d[x]]

Range(s) == {s[i] : i \in 1..Len(s)}

\* list.remove(x): drops the first occurrence of x (x is known to be in s)
RECURSIVE ListRemove(_, _)
ListRemove(s, x) ==
    IF s = <<>> THEN <<>>
    ELSE IF Head(s) = x THEN Tail(s)
    ELSE <<Head(s)>> \o ListRemove(Tail(s), x)

EmptyDict == [x \in {} |-> 0]

----------------------------------------------------------------------------
(* Messages of the push channel *)

NoMsg == [type |-> "none", data |-> {}]

\* json.dumps({"type": "session_ended"})
SessionEnded == [type |-> "session_ended", data |-> {}]

\* json.dumps({"type": "state_update", "data": active_sessions[session_id]}):
\* serialising copies the session as it is at the time of the call
StateUpdate(session) == [type |-> "state_update", data |-> {session}]

----------------------------------------------------------------------------
(* Coroutine frames *)

Sockets == 1..NumSockets
Enders == 1..NumEnders

\* the frame of a call of ConnectionManager.broadcast: the list iterator of
\* its for loop is (attached, list, idx); sent and targets record, for the
\* properties, where send_text succeeded and the list the loop started on
NoBroadcast ==
    [state |-> "none", session_id |-> <<>>, message |-> NoMsg, idx |-> 0,
     attached |-> FALSE, list |-> <<>>, sent |-> <<>>, targets |-> <<>>]

NewSocket ==
    [pc |-> "new", session_id |-> <<>>, user_name |-> <<>>, open |-> TRUE,
     last |-> NoMsg, bc |-> NoBroadcast]

NewEnder ==
    [pc |-> "idle", session_id |-> <<>>, status |-> 0, bc |-> NoBroadcast]

NoReply == [op |-> "none", status |-> 0, session_id |-> <<>>]

Init ==
    /\ active_sessions = EmptyDict
    /\ active_connections = EmptyDict
    /\ now = 0
    /\ sweeper_wake = SLEEP_HOURS
    /\ reply = NoReply
    /\ ws = [w \in Sockets |-> NewSocket]
    /\ es = [e \in Enders |-> NewEnder]

----------------------------------------------------------------------------
(* POST /register *)

\* mutant: the second participant gets no score mapping
NewSessionWithoutSecond(p1, p2, t) ==
    [participant1 |-> p1,
     participant2 |-> p2,
     scores |-> [n \in {p1} |-> ZeroScores],
     created_at |-> t]

NewSession(p1, p2, t) ==
    [participant1 |-> p1,
     participant2 |-> p2,
     scores |-> [n \in {p1, p2} |-> ZeroScores],
     created_at |-> t]

\* mutant: no check for an existing session
RegisterStatusNoConflict(p1, p2, sessions) ==
    IF p1 = <<>> \/ p2 = <<>> THEN 400
    ELSE IF p1 = p2 THEN 400
    ELSE 201

\* mutant: the check for an existing session comes first
RegisterStatusConflictFirst(p1, p2, sessions) ==
    IF p2 \in DOMAIN sessions THEN 409
    ELSE IF p1 = <<>> \/ p2 = <<>> THEN 400
    ELSE IF p1 = p2 THEN 400
    ELSE 201

\* mutant: a session under the first name is a conflict too
RegisterStatusEitherName(p1, p2, sessions) ==
    IF p1 = <<>> \/ p2 = <<>> THEN 400
    ELSE IF p1 = p2 THEN 400
    ELSE IF p2 \in DOMAIN sessions \/ p1 \in DOMAIN sessions THEN 409
    ELSE 201

\* the checks of register_session, in their order: the status of the response
RegisterStatus(p1, p2, sessions) ==
    IF p1 = <<>> \/ p2 = <<>> THEN 400
    ELSE IF p1 = p2 THEN 400
    ELSE IF p2 \in DOMAIN sessions THEN 409
    ELSE 201

\* the handler as a function of the request, the store and the clock: the
\* status and session_id of its response and the store it leaves
Register(raw1, raw2, sessions, t) ==
    LET p1 == Strip(raw1)
        p2 == Strip(raw2)
        session_id == p2
        status == RegisterStatus(p1, p2, sessions)
    IN  [status |-> status,
         session_id |-> session_id,
         sessions |-> IF status = 201
                      THEN DictSet(sessions, session_id, NewSession(p1, p2, t))
                      ELSE sessions]

register_session(raw1, raw2) ==
    LET r == Register(raw1, raw2, active_sessions, now)
    IN  /\ reply' = [op |-> "register", status |-> r.status, session_id |-> r.session_id]
        /\ active_sessions' = r.sessions
        /\ UNCHANGED <<active_connections, now, sweeper_wake, ws, es>>

(* POST /login *)

login_user(raw) ==
    LET session_id == Strip(raw)
    IN  /\ reply' = [op |-> "login",
                     status |-> IF session_id \in DOMAIN active_sessions THEN 200 ELSE 404,
                     session_id |-> session_id]
        /\ UNCHANGED <<active_sessions, active_connections, now, sweeper_wake, ws, es>>

----------------------------------------------------------------------------
(* ConnectionManager *)

\* the list a running broadcast iterates over: the registry's list while the
\* registry still holds it, the list as it was unlinked afterwards
LiveList(f, conns) == IF f.attached THEN conns[f.session_id] ELSE f.list

\* del manager.active_connections[k] for the keys K unlinks their lists: a
\* broadcast suspended inside one of them keeps iterating over that list
Unlink(f, conns, K) ==
    IF f.state = "running" /\ f.attached /\ f.session_id \in K
    THEN [f EXCEPT !.attached = FALSE, !.list = conns[f.session_id]]
    ELSE f

\* broadcast(message, session_id) up to its first send
BroadcastStart(message, session_id, conns) ==
    [state |-> "running", session_id |-> session_id, message |-> message, idx |-> 0,
     attached |-> session_id \in DOMAIN conns, list |-> <<>>, sent |-> <<>>,
     targets |-> IF session_id \in DOMAIN conns THEN conns[session_id] ELSE <<>>]

\* one turn of `for connection in ...: await connection.send_text(message)`:
\* the iterator yields the item at idx of the list as it is now, or ends the
\* loop; send_text delivers to a client that is there and raises otherwise.
\* The frame of a broadcast that returned is gone; the frame of one that
\* raised is kept as the record of how far it got.
BroadcastTurn(f, conns, sockets) ==
    LET L == LiveList(f, conns)
    IN  IF f.idx >= Len(L)
        THEN [outcome |-> "finished", bc |-> NoBroadcast, sockets |-> sockets]
        ELSE LET c == L[f.idx + 1]
             IN  IF sockets[c].open
                 THEN [outcome |-> "suspended",
                       bc |-> [f EXCEPT !.idx = @ + 1, !.sent = Append(@, c)],
                       sockets |-> [sockets EXCEPT ![c].last = f.message]]
                 ELSE [outcome |-> "raised",
                       bc |-> [f EXCEPT !.state = "raised", !.idx = @ + 1,
                                        !.attached = FALSE, !.list = <<>>],
                       sockets |-> sockets]

\* manager.disconnect(websocket, session_id): "ok", or "raised" when
\* list.remove does not find the socket (ValueError)
DisconnectOutcome(w, session_id, conns) ==
    IF session_id \in DOMAIN conns /\ w \notin Range(conns[session_id])
    THEN "raised" ELSE "ok"

Disconnect(w, session_id, conns) ==
    IF session_id \in DOMAIN conns /\ w \in Range(conns[session_id])
    THEN [conns EXCEPT ![session_id] = ListRemove(@, w)]
    ELSE conns

UnlinkAll(tasks, conns, K) ==
    [t \in DOMAIN tasks |-> [tasks[t] EXCEPT !.bc = Unlink(@, conns, K)]]

\* connect(websocket, session_id) after accept() has returned
Connect(w, session_id, conns) ==
    IF session_id \in DOMAIN conns
    THEN [conns EXCEPT ![session_id] = Append(@, w)]
    ELSE DictSet(conns, session_id, <<w>>)

----------------------------------------------------------------------------
(* POST /end_session *)

\* the handler after broadcast has returned: the two del statements
EndSessionDelete(e, session_id, sockets, bc) ==
    IF session_id \in DOMAIN active_sessions
    THEN LET K == {session_id} \cap DOMAIN active_connections
         IN  /\ active_sessions' = DictDel(active_sessions, session_id)
             /\ active_connections' = DictDel(active_connections, session_id)
             /\ ws' = UnlinkAll(sockets, active_connections, K)
             /\ es' = [UnlinkAll(es, active_connections, K) EXCEPT
                          ![e] = [pc |-> "done", session_id |-> session_id,
                                  status |-> 200, bc |-> bc]]
    ELSE \* del active_sessions[session_id] raises KeyError
         /\ ws' = sockets
         /\ es' = [es EXCEPT ![e] = [pc |-> "done", session_id |-> session_id,
                                     status |-> 500, bc |-> bc]]
         /\ UNCHANGED <<active_sessions, active_connections>>

\* the handler from a resumption inside broadcast to its next suspension
EndSessionRun(e, session_id, f) ==
    LET r == BroadcastTurn(f, active_connections, ws)
    IN  CASE r.outcome = "suspended" ->
               /\ ws' = r.sockets
               /\ es' = [es EXCEPT ![e] = [pc |-> "broadcasting", session_id |-> session_id,
                                           status |-> 0, bc |-> r.bc]]
               /\ UNCHANGED <<active_sessions, active_connections>>
          [] r.outcome = "finished" ->
               EndSessionDelete(e, session_id, r.sockets, r.bc)
          [] r.outcome = "raised" ->
               \* send_text raised: the handler ends, the server answers 500
               /\ ws' = r.sockets
               /\ es' = [es EXCEPT ![e] = [pc |-> "done", session_id |-> session_id,
                                           status |-> 500, bc |-> r.bc]]
               /\ UNCHANGED <<active_sessions, active_connections>>

\* requests are numbered in the order in which they arrive
end_session(e, session_id) ==
    /\ es[e].pc = "idle"
    /\ \A d \in 1..(e - 1) : es[d].pc # "idle"
    /\ UNCHANGED <<now, sweeper_wake, reply>>
    /\ IF session_id \in DOMAIN active_sessions
       THEN EndSessionRun(e, session_id,
                          BroadcastStart(SessionEnded, session_id, active_connections))
       ELSE /\ es' = [es EXCEPT ![e] = [pc |-> "done", session_id |-> session_id,
                                        status |-> 404, bc |-> NoBroadcast]]
            /\ UNCHANGED <<active_sessions, active_connections, ws>>

end_session_resume(e) ==
    /\ es[e].pc = "broadcasting"
    /\ UNCHANGED <<now, sweeper_wake, reply>>
    /\ EndSessionRun(e, es[e].session_id, es[e].bc)

----------------------------------------------------------------------------
(* WebSocket /ws/{session_id}/{user_name} *)

\* an exception leaves the handler.  caught: it is a WebSocketDisconnect and
\* the handler's except clause calls manager.disconnect; otherwise the
\* coroutine dies with the socket still registered
HandlerExit(w, caught, sockets, bc) ==
    LET session_id == ws[w].session_id
        ok == caught /\ DisconnectOutcome(w, session_id, active_connections) = "ok"
    IN  /\ ws' = [sockets EXCEPT ![w].pc = IF ok THEN "done" ELSE "error",
                                 ![w].bc = bc]
        /\ active_connections' =
              IF caught THEN Disconnect(w, session_id, active_connections)
              ELSE active_connections

\* mutant: the handshake does not look for the session
ws_open_unchecked(w, session_id, user_name) ==
    /\ ws[w].pc = "new"
    /\ \A v \in 1..(w - 1) : ws[v].pc # "new"
    /\ UNCHANGED <<active_sessions, active_connections, now, sweeper_wake, reply, es>>
    /\ ws' = [ws EXCEPT ![w].pc = "accepting", ![w].session_id = session_id,
                        ![w].user_name = user_name]

\* sockets are numbered in the order in which they connect
ws_open(w, session_id, user_name) ==
    /\ ws[w].pc = "new"
    /\ \A v \in 1..(w - 1) : ws[v].pc # "new"
    /\ UNCHANGED <<active_sessions, active_connections, now, sweeper_wake, reply, es>>
    /\ IF session_id \notin DOMAIN active_sessions
       THEN \* await websocket.close(code=1008); return
            ws' = [ws EXCEPT ![w].pc = "refused", ![w].session_id = session_id,
                             ![w].user_name = user_name, ![w].open = FALSE]
       ELSE \* manager.connect: await websocket.accept()
            ws' = [ws EXCEPT ![w].pc = "accepting", ![w].session_id = session_id,
                             ![w].user_name = user_name]

\* accept() has returned: the socket is registered and the initial
\* state_update is sent
ws_accepted(w, caught) ==
    LET session_id == ws[w].session_id
        conns == Connect(w, session_id, active_connections)
    IN  /\ ws[w].pc = "accepting"
        /\ UNCHANGED <<active_sessions, now, sweeper_wake, reply, es>>
        /\ IF session_id \notin DOMAIN active_sessions
           THEN \* active_sessions[session_id] raises KeyError
                /\ ws' = [ws EXCEPT ![w].pc = "error"]
                /\ active_connections' = conns
           ELSE IF ws[w].open
           THEN /\ ws' = [ws EXCEPT ![w].pc = "receiving",
                                    ![w].last = StateUpdate(active_sessions[session_id])]
                /\ active_connections' = conns
           ELSE \* send_text raises
                /\ ws' = [ws EXCEPT ![w].pc = IF caught THEN "done" ELSE "error"]
                /\ active_connections' =
                      IF caught THEN Disconnect(w, session_id, conns) ELSE conns

\* the handler from a resumption inside broadcast to its next suspension
WsRun(w, f, caught) ==
    LET r == BroadcastTurn(f, active_connections, ws)
    IN  CASE r.outcome = "suspended" ->
               /\ ws' = [r.sockets EXCEPT ![w].pc = "broadcasting", ![w].bc = r.bc]
               /\ UNCHANGED active_connections
          [] r.outcome = "finished" ->
               /\ ws' = [r.sockets EXCEPT ![w].pc = "receiving", ![w].bc = r.bc]
               /\ UNCHANGED active_connections
          [] r.outcome = "raised" ->
               HandlerExit(w, caught, r.sockets, r.bc)

\* mutant: the payload is merged into the participant's mapping
UpdateScoresMerge(session, user_name, payload) ==
    LET old == IF user_name \in DOMAIN session.scores
               THEN session.scores[user_name] ELSE EmptyDict
    IN  [session EXCEPT !.scores =
            DictSet(@, user_name,
                    [p \in DOMAIN old \cup DOMAIN payload |->
                        IF p \in DOMAIN payload THEN payload[p] ELSE old[p]])]

\* active_sessions[session_id]["scores"][user_name] = payload
UpdateScores(session, user_name, payload) ==
    [session EXCEPT !.scores = DictSet(@, user_name, payload)]

\* an update_score command arrives
ws_update_score(w, payload, caught) ==
    LET session_id == ws[w].session_id
        user_name == ws[w].user_name
    IN  /\ ws[w].pc = "receiving"
        /\ ws[w].open
        /\ UNCHANGED <<now, sweeper_wake, reply, es>>
        /\ IF session_id \in DOMAIN active_sessions
           THEN LET updated == [active_sessions EXCEPT
                                   ![session_id] = UpdateScores(@, user_name, payload)]
                IN  /\ active_sessions' = updated
                    /\ WsRun(w, BroadcastStart(StateUpdate(updated[session_id]),
                                               session_id, active_connections), caught)
           ELSE UNCHANGED <<active_sessions, active_connections, ws>>

ws_broadcast_resume(w, caught) ==
    /\ ws[w].pc = "broadcasting"
    /\ UNCHANGED <<active_sessions, now, sweeper_wake, reply, es>>
    /\ WsRun(w, ws[w].bc, caught)

\* the client goes away
client_close(w) ==
    /\ ws[w].pc \in {"accepting", "receiving", "broadcasting", "error"}
    /\ ws[w].open
    /\ ws' = [ws EXCEPT ![w].open = FALSE]
    /\ UNCHANGED <<active_sessions, active_connections, now, sweeper_wake, reply, es>>

\* receive raises WebSocketDisconnect: manager.disconnect(websocket, session_id)
ws_disconnect(w) ==
    /\ ws[w].pc = "receiving"
    /\ ~ws[w].open
    /\ UNCHANGED <<active_sessions, now, sweeper_wake, reply, es>>
    /\ HandlerExit(w, TRUE, ws, ws[w].bc)

----------------------------------------------------------------------------
(* Clock and clean-up task *)

Tick(horizon) ==
    /\ now < horizon
    /\ now < sweeper_wake
    /\ now' = now + 1
    /\ UNCHANGED <<active_sessions, active_connections, sweeper_wake, reply, ws, es>>

\* mutant: a session expires when it is 15 hours old
ExpiredAtTTL(sessions, t) ==
    {k \in DOMAIN sessions : t - sessions[k].created_at >= TTL_HOURS}

\* mutant: the age is computed with its operands exchanged
ExpiredWrongSign(sessions, t) ==
    {k \in DOMAIN sessions : sessions[k].created_at - t > TTL_HOURS}

Expired(sessions, t) ==
    {k \in DOMAIN sessions : t - sessions[k].created_at > TTL_HOURS}

\* mutant: the clean-up task removes the sessions and keeps their lists
cleanup_keeps_connections ==
    LET sessions_to_delete == Expired(active_sessions, now)
    IN  /\ now >= sweeper_wake
        /\ active_sessions' =
              [k \in DOMAIN active_sessions \ sessions_to_delete |-> active_sessions[k]]
        /\ sweeper_wake' = now + SLEEP_HOURS
        /\ UNCHANGED <<active_connections, ws, es, now, reply>>

\* one turn of the while loop of cleanup_old_sessions, after its sleep
cleanup_old_sessions ==
    LET sessions_to_delete == Expired(active_sessions, now)
        K == sessions_to_delete \cap DOMAIN active_connections
    IN  /\ now >= sweeper_wake
        /\ active_sessions' =
              [k \in DOMAIN active_sessions \ sessions_to_delete |-> active_sessions[k]]
        /\ active_connections' =
              [k \in DOMAIN active_connections \ sessions_to_delete |-> active_connections[k]]
        /\ ws' = UnlinkAll(ws, active_connections, K)
        /\ es' = UnlinkAll(es, active_connections, K)
        /\ sweeper_wake' = now + SLEEP_HOURS
        /\ UNCHANGED <<now, reply>>

----------------------------------------------------------------------------
(* Specifications *)

\* the requests of the clients: R1 and R2 are the names sent as participant1
\* and participant2 (R2 also as login), E the end_session requests and S the
\* sockets that may be used, K the session ids and U the user names of
\* end_session bodies and WebSocket paths, P the payloads
Registration(R1, R2) ==
    \/ \E raw1 \in R1, raw2 \in R2 : register_session(raw1, raw2)
    \/ \E raw \in R2 : login_user(raw)

Termination(E, K) ==
    \/ \E e \in E, k \in K : end_session(e, k)
    \/ \E e \in E : end_session_resume(e)

Gateway(S, K, U, P) ==
    \/ \E w \in S, k \in K, u \in U : ws_open(w, k, u)
    \/ \E w \in S, caught \in BOOLEAN : ws_accepted(w, caught)
    \/ \E w \in S, p \in P, caught \in BOOLEAN : ws_update_score(w, p, caught)
    \/ \E w \in S, caught \in BOOLEAN : ws_broadcast_resume(w, caught)
    \/ \E w \in S : client_close(w)
    \/ \E w \in S : ws_disconnect(w)

Clock(horizon) ==
    \/ Tick(horizon)
    \/ cleanup_old_sessions

OnePayload == {[p \in {PRODUCT_LIST[1]} |-> MaxScore]}

\* the payloads that score one product
SinglePayloads == {[p \in {q} |-> v] : q \in Products, v \in 1..MaxScore}

\* The first hour of the process, while the clean-up task sleeps: the
\* sessions of a with b and of a with c, all sockets, one end_session request.
Next ==
    \/ Registration({Alice}, {Bob, Carol})
    \/ Termination({1}, {Bob, Carol})
    \/ Gateway(Sockets, {Bob, Carol}, {Bob}, OnePayload)

Spec == Init /\ [][Next]_vars

\* The end of a session's life: the session of a and b was created in hour 0
\* and nothing else has happened until hour TTL_HOURS - 1 (the clean-up task
\* has run every hour and sleeps again).  One socket, one end_session request.
InitLong ==
    /\ active_sessions = DictSet(EmptyDict, Bob, NewSession(Alice, Bob, 0))
    /\ active_connections = EmptyDict
    /\ now = TTL_HOURS - 1
    /\ sweeper_wake = TTL_HOURS - 1 + SLEEP_HOURS
    /\ reply = [op |-> "register", status |-> 201, session_id |-> Bob]
    /\ ws = [w \in Sockets |-> NewSocket]
    /\ es = [e \in Enders |-> NewEnder]

NextLong ==
    \/ Registration({Alice, Carol}, {Bob})
    \/ Termination({1}, {Bob})
    \/ Gateway({1}, {Bob}, {Bob, Carol}, Payloads)
    \/ Clock(LongHorizon)

SpecLong == InitLong /\ [][NextLong]_vars

\* Registration: every kind of name, the sessions under the keys b and c, one
\* socket, one end_session request, the first hours of the process.
NextReg ==
    \/ Registration(RawNames, {Bob, Carol, <<>>, <<SP, "b">>})
    \/ Termination({1}, {Bob, Carol})
    \/ Gateway({1}, {Bob}, {Bob}, OnePayload)
    \/ Clock(RegHorizon)

SpecReg == Init /\ [][NextReg]_vars

\* Scores: one session, both participants connected, several payloads.
NextScores ==
    \/ Registration({Alice}, {Bob})
    \/ Gateway(Sockets, {Bob}, {Alice, Bob}, SinglePayloads)

SpecScores == Init /\ [][NextScores]_vars

\* The clean-up task at the end of a session's life: the old session under b
\* and a young one under c, one socket on either, one end_session request.
\* The clean-up task is an asyncio task whose sleep always ends and the clock
\* always advances, which is the fairness of SpecSweepFair.
NextSweep ==
    \/ Registration({Alice}, {Bob, Carol})
    \/ Termination({1}, {Bob})
    \/ Gateway({1}, {Bob, Carol}, {Bob}, OnePayload)
    \/ Clock(LongHorizon)

SpecSweep == InitLong /\ [][NextSweep]_vars

SpecSweepFair == SpecSweep /\ WF_vars(Clock(LongHorizon))

\* Overlapping end_session requests on one session with one socket.
NextOverlap ==
    \/ Registration({Alice}, {Bob})
    \/ Termination(Enders, {Bob})
    \/ Gateway({1}, {Bob}, {Bob}, OnePayload)

SpecOverlap == Init /\ [][NextOverlap]_vars

----------------------------------------------------------------------------
(* Properties: registration *)

ValidPair(raw1, raw2) ==
    /\ Strip(raw1) # <<>>
    /\ Strip(raw2) # <<>>
    /\ Strip(raw1) # Strip(raw2)

\* a step that answers a register request with a new response
RegisterAnswers(status) ==
    /\ reply' # reply
    /\ reply'.op = "register"
    /\ reply'.status = status

\* C1: while a session exists under key b, every register(a', b) fails and
\* leaves the store as it is, with ConflictError (409) when the two names are
\* valid; a valid register(a', b) succeeds only when no session exists under b
\* (so of several such calls exactly the first one succeeds).
C1_ConflictKeepsSession ==
    \A raw1 \in RawNames, raw2 \in RawNames :
       LET r == Register(raw1, raw2, active_sessions, now)
       IN  /\ Strip(raw2) \in DOMAIN active_sessions =>
                /\ r.sessions = active_sessions
                /\ r.status # 201
                /\ ValidPair(raw1, raw2) => r.status = 409
           /\ (ValidPair(raw1, raw2) /\ Strip(raw2) \notin DOMAIN active_sessions) =>
                /\ r.status = 201
                /\ Strip(raw2) \in DOMAIN r.sessions

\* a register has just been refused with 409 for key b, whose session is an
\* hour old and has a changed score mapping
C1_Witness ==
    /\ reply = [op |-> "register", status |-> 409, session_id |-> Bob]
    /\ Bob \in DOMAIN active_sessions
    /\ active_sessions[Bob].created_at < now
    /\ active_sessions[Bob].scores[Bob] # ZeroScores

\* C2: register(p1, p2) fails with ValidationError (400) whenever a name is
\* empty or the two names are equal, as sent or after stripping, also when a
\* session exists under p2, and a register answered with 400 leaves the store
\* and the registry unchanged.
C2_ValidationFirst ==
    /\ [](\A raw1 \in RawNames, raw2 \in RawNames :
            (\/ raw1 = <<>> \/ raw2 = <<>> \/ raw1 = raw2
             \/ ~ValidPair(raw1, raw2))
            => LET r == Register(raw1, raw2, active_sessions, now)
               IN  r.status = 400 /\ r.sessions = active_sessions)
    /\ [][RegisterAnswers(400) =>
             /\ active_sessions' = active_sessions
             /\ active_connections' = active_connections]_vars

\* a register for key b has just been refused with 400 while the session
\* under b exists and has a connection set
C2_Witness ==
    /\ reply = [op |-> "register", status |-> 400, session_id |-> Bob]
    /\ Bob \in DOMAIN active_sessions
    /\ Bob \in DOMAIN active_connections

\* C3: right after a successful register(a, b) the store holds under key b a
\* session of a and b whose scores have exactly the keys a and b, each mapping
\* exactly the products of the catalog, each to 0.
C3_FreshSessionIsZero ==
    \A raw1 \in RawNames, raw2 \in RawNames :
       LET r == Register(raw1, raw2, active_sessions, now)
           a == Strip(raw1)
           b == Strip(raw2)
       IN  r.status = 201 =>
             /\ b \in DOMAIN r.sessions
             /\ r.sessions[b].participant1 = a
             /\ r.sessions[b].participant2 = b
             /\ DOMAIN r.sessions[b].scores = {a, b}
             /\ \A n \in {a, b} :
                   /\ DOMAIN r.sessions[b].scores[n] =
                         {PRODUCT_LIST[i] : i \in 1..Len(PRODUCT_LIST)}
                   /\ \A i \in 1..Len(PRODUCT_LIST) :
                         r.sessions[b].scores[n][PRODUCT_LIST[i]] = 0

\* register(c, b) has just succeeded, after the earlier session under b had
\* a socket connected and was ended
C3_Witness ==
    /\ reply = [op |-> "register", status |-> 201, session_id |-> Bob]
    /\ Bob \in DOMAIN active_sessions
    /\ active_sessions[Bob].participant1 = Carol
    /\ active_sessions[Bob].scores = [n \in {Carol, Bob} |-> ZeroScores]
    /\ es[1].status = 200
    /\ ws[1].last.type = "session_ended"

----------------------------------------------------------------------------
(* Properties: score updates *)

\* a step that changes the record of a session that stays in the store
SessionRewritten(k) ==
    /\ k \in DOMAIN active_sessions
    /\ k \in DOMAIN active_sessions'
    /\ active_sessions'[k] # active_sessions[k]

\* C4: an update_score of participant b with payload P, accepted on an
\* existing session, makes b's score mapping exactly P (nothing of b's old
\* mapping stays) and leaves the other participant's mapping, both names and
\* created_at as they are; and no step changes a stored session in another way.
C4_UpdateReplaces ==
    /\ [](\A w \in Sockets, P \in Payloads :
            LET k == ws[w].session_id
                b == ws[w].user_name
            IN  (/\ ws[w].pc = "receiving"
                 /\ ws[w].open
                 /\ k \in DOMAIN active_sessions
                 /\ b \in {active_sessions[k].participant1, active_sessions[k].participant2})
                => LET old == active_sessions[k]
                       new == UpdateScores(old, b, P)
                   IN  /\ new.scores[b] = P
                       /\ DOMAIN new.scores = DOMAIN old.scores
                       /\ \A n \in DOMAIN old.scores \ {b} : new.scores[n] = old.scores[n]
                       /\ new.participant1 = old.participant1
                       /\ new.participant2 = old.participant2
                       /\ new.created_at = old.created_at)
    /\ [][\A k \in Names :
             SessionRewritten(k) =>
                \E w \in Sockets :
                   /\ ws[w].pc = "receiving"
                   /\ ws[w].session_id = k
                   /\ active_sessions'[k].scores[ws[w].user_name] \in Payloads
                   /\ active_sessions'[k] =
                         [active_sessions[k] EXCEPT !.scores =
                             DictSet(@, ws[w].user_name,
                                     active_sessions'[k].scores[ws[w].user_name])]]_vars

\* b replaced its zero scores by a score for the second product alone, a had
\* scored the first product before, and a socket has received that state
C4_Witness ==
    /\ Bob \in DOMAIN active_sessions
    /\ active_sessions[Bob].scores[Bob] = [p \in {PRODUCT_LIST[2]} |-> MaxScore]
    /\ active_sessions[Bob].scores[Alice] = [p \in {PRODUCT_LIST[1]} |-> MaxScore]
    /\ \E w \in Sockets : ws[w].last = StateUpdate(active_sessions[Bob])

----------------------------------------------------------------------------
(* Properties: broadcast *)

\* the step in which a broadcast of the coroutine returns (its frame goes) or
\* raises (its frame is kept as raised), and the frame as it was at that point
BroadcastReturns(t, tn) == t.bc.state = "running" /\ tn.bc.state = "none"

BroadcastRaises(t, tn) == t.bc.state # "raised" /\ tn.bc.state = "raised"

BroadcastEnds(t, tn) == BroadcastReturns(t, tn) \/ BroadcastRaises(t, tn)

FinalFrame(t, tn) == IF BroadcastRaises(t, tn) THEN tn.bc ELSE t.bc

Registered(conns, k) == IF k \in DOMAIN conns THEN Range(conns[k]) ELSE {}

Times(s, x) == Cardinality({i \in 1..Len(s) : s[i] = x})

\* C5: when the broadcast after an accepted score update on session k ends,
\* every connection registered under k (from the start of the broadcast to
\* its end, its client still there) has been sent the snapshot, and no
\* connection of another session has.
C5_UpdateReachesWholeSession ==
    [][\A w \in Sockets :
          BroadcastEnds(ws[w], ws'[w]) =>
             LET f == FinalFrame(ws[w], ws'[w])
             IN  /\ f.message.type = "state_update"
                 /\ \A c \in Range(f.targets) \cap Registered(active_connections', f.session_id) :
                       ws'[c].open => c \in Range(f.sent)
                 /\ \A c \in Range(f.sent) : ws[c].session_id = f.session_id]_vars

\* C8: a send that fails inside broadcast does not end the broadcast: no
\* broadcast raises to its caller (the WebSocket handler of the update's
\* sender, or end_session), and the other connections are still served.
C8_FailedSendIsContained ==
    /\ \A w \in Sockets : ws[w].bc.state # "raised"
    /\ \A e \in Enders : es[e].bc.state # "raised" /\ es[e].status # 500

\* C6: when end_session(key) has run on an existing session, whatever
\* connections it had, the session and the connection set of key are gone;
\* and end_session answers not-found (404) exactly when there is no session.
C6_TerminateRemoves ==
    [][\A e \in Enders :
          (es[e].pc # "done" /\ es'[e].pc = "done") =>
             LET key == es'[e].session_id
             IN  IF es[e].pc = "idle" /\ key \notin DOMAIN active_sessions
                 THEN es'[e].status = 404
                 ELSE /\ es'[e].status # 404
                      /\ key \notin DOMAIN active_sessions'
                      /\ key \notin DOMAIN active_connections']_vars

\* C9: when end_session(key) on an existing session is over, every connection
\* that was registered under key when it started (its client still there) has
\* been sent session_ended exactly once, while the session was still in the
\* store, and no other connection has been sent it.
C9_EveryoneToldOnce ==
    [][\A e \in Enders :
          (BroadcastEnds(es[e], es'[e]) /\ es'[e].pc = "done") =>
             LET f == FinalFrame(es[e], es'[e])
             IN  /\ f.message = SessionEnded
                 /\ \A c \in Range(f.targets) : ws'[c].open => Times(f.sent, c) = 1
                 /\ \A c \in Range(f.sent) :
                       ws[c].session_id = f.session_id /\ Times(f.sent, c) = 1
                 /\ f.session_id \in DOMAIN active_sessions]_vars

----------------------------------------------------------------------------
(* Properties: handshake *)

InRegistry(w) == \E k \in DOMAIN active_connections : w \in Range(active_connections[k])

\* C10: a connection attempt for a key without a session is refused: the
\* socket is closed and never accepted, the store and the registry stay as
\* they are, and a refused socket is never registered and never sent anything.
C10_RefusedHandshake ==
    /\ [](\A w \in Sockets :
            ws[w].pc = "refused" => ~InRegistry(w) /\ ws[w].last = NoMsg)
    /\ [][\A w \in Sockets :
             /\ (ws[w].pc = "new" /\ ws'[w].pc # "new"
                   /\ ws'[w].session_id \notin DOMAIN active_sessions) =>
                   /\ ws'[w].pc = "refused"
                   /\ active_sessions' = active_sessions
                   /\ active_connections' = active_connections
             /\ ws[w].pc = "refused" => ws'[w].pc = "refused"]_vars

\* socket 1 was refused under key b; the session under b was created later,
\* and socket 2 has connected to it and received its state
C10_Witness ==
    /\ ws[1].pc = "refused"
    /\ ws[1].session_id = Bob
    /\ ws[2].pc = "receiving"
    /\ ws[2].session_id = Bob
    /\ ws[2].last.type = "state_update"
    /\ active_connections[Bob] = <<2>>

----------------------------------------------------------------------------
(* Properties: expiry *)

\* a turn of the clean-up task: no other step moves its wake-up time
Sweeps == sweeper_wake' # sweeper_wake

\* C7 as stated: a sweep before created_at + 15h keeps the session, a sweep at
\* or after created_at + 15h removes it.
C7_SweepAtTTLRemoves ==
    [][Sweeps =>
          \A k \in DOMAIN active_sessions :
             IF now < active_sessions[k].created_at + TTL_HOURS
             THEN k \in DOMAIN active_sessions'
             ELSE k \notin DOMAIN active_sessions']_vars

\* C7 amended: a sweep at or before created_at + 15h keeps the session as it
\* is, a sweep after created_at + 15h removes it.
C7_SweepAfterTTLRemoves ==
    [][Sweeps =>
          \A k \in DOMAIN active_sessions :
             IF now <= active_sessions[k].created_at + TTL_HOURS
             THEN k \in DOMAIN active_sessions' /\ active_sessions'[k] = active_sessions[k]
             ELSE k \notin DOMAIN active_sessions']_vars

\* the session is exactly 15 hours old, the sweep of this hour has run and
\* the session is still there
C7_Witness ==
    /\ Bob \in DOMAIN active_sessions
    /\ now = active_sessions[Bob].created_at + TTL_HOURS
    /\ sweeper_wake > now

----------------------------------------------------------------------------
(* Properties: store and registry together *)

\* C11: every session key that has a connection set in the registry has a
\* session in the store, in every reachable state and so in every
\* interleaving of a handshake with end_session or with the clean-up task.
C11_NoOrphanConnections ==
    DOMAIN active_connections \subseteq DOMAIN active_sessions

\* a frame of a broadcast over session k that has not ended yet
Broadcasting(k) ==
    \/ \E w \in Sockets : ws[w].bc.state = "running" /\ ws[w].bc.session_id = k
    \/ \E e \in Enders : es[e].bc.state = "running" /\ es[e].bc.session_id = k

\* C12: once all broadcasts over a session have finished, the last snapshot
\* of every registered connection is the session as it is in the store; stated
\* for the runs in which no client goes away, so that every send succeeds and
\* no connection unregisters.
C12_NoStaleSnapshot ==
    \A k \in DOMAIN active_sessions :
       (~Broadcasting(k) /\ \A w \in Sockets : ws[w].open) =>
          \A c \in Registered(active_connections, k) :
             (ws[c].pc = "receiving" /\ ws[c].open /\ ws[c].last.type = "state_update")
             => ws[c].last = StateUpdate(active_sessions[k])

\* a step that creates a session under key k
SessionCreated(k) ==
    /\ k \notin DOMAIN active_sessions
    /\ k \in DOMAIN active_sessions'

\* C13: once the session under key b is gone (ended or expired) a valid
\* register(a', b) succeeds, and the session it creates is fresh: all scores
\* 0, created_at the time of the call, and a connection set without any
\* connection of the old session (no connection at all).
C13_ReuseStartsFresh ==
    /\ [](\A raw1 \in Names, b \in Names :
            (ValidPair(raw1, b) /\ b \notin DOMAIN active_sessions) =>
                Register(raw1, b, active_sessions, now).status = 201)
    /\ [][\A b \in Names :
             SessionCreated(b) =>
                /\ active_sessions'[b].scores =
                      [n \in {active_sessions'[b].participant1, b} |-> ZeroScores]
                /\ active_sessions'[b].created_at = now
                /\ Registered(active_connections', b) = {}]_vars

----------------------------------------------------------------------------
(* Properties: the clean-up task *)

\* C14: one turn of the clean-up task removes exactly the sessions that are
\* older than the TTL, each with its connection set, leaves every other
\* session and every other connection set as it is, and sends nothing.
C14_SweepFrame ==
    [][Sweeps =>
          LET old == {k \in DOMAIN active_sessions :
                         now - active_sessions[k].created_at > TTL_HOURS}
          IN  /\ DOMAIN active_sessions' = DOMAIN active_sessions \ old
              /\ \A k \in DOMAIN active_sessions' : active_sessions'[k] = active_sessions[k]
              /\ DOMAIN active_connections' = DOMAIN active_connections \ old
              /\ \A k \in DOMAIN active_connections' :
                    active_connections'[k] = active_connections[k]
              /\ \A w \in Sockets :
                    /\ ws'[w].last = ws[w].last
                    /\ ws'[w].open = ws[w].open
                    /\ ws'[w].pc = ws[w].pc
                    /\ ws'[w].bc.sent = ws[w].bc.sent
              /\ \A e \in Enders : es'[e].bc.sent = es[e].bc.sent /\ es'[e].pc = es[e].pc]_vars

\* the session under b has expired with its connected socket in its list: the
\* list is gone, the socket was sent nothing after its snapshot, and the
\* young session under c is still there
C14_Witness ==
    /\ Bob \notin DOMAIN active_sessions
    /\ Bob \notin DOMAIN active_connections
    /\ Carol \in DOMAIN active_sessions
    /\ es[1].pc = "idle"
    /\ ws[1].pc = "receiving"
    /\ ws[1].open
    /\ ws[1].session_id = Bob
    /\ ws[1].last.type = "state_update"

\* the sessions whose expiry lies within the hours the clock runs
ExpiresInTime(k) ==
    /\ k \in DOMAIN active_sessions
    /\ active_sessions[k].created_at + TTL_HOURS < LongHorizon

\* C17: with the clock advancing and the clean-up task running every hour,
\* every session is eventually removed from the store, whatever connects,
\* updates and disconnects happen on it: no step changes its created_at, and
\* the step that removes it removes its connection set too.
C17_EverySessionGoes ==
    /\ \A k \in Names : ExpiresInTime(k) ~> (k \notin DOMAIN active_sessions)
    /\ [][\A k \in DOMAIN active_sessions :
             IF k \in DOMAIN active_sessions'
             THEN active_sessions'[k].created_at = active_sessions[k].created_at
             ELSE k \notin DOMAIN active_connections']_vars

\* the session of hour 0 has expired, never ended by a request, after b had
\* connected and changed its scores
C17_Witness ==
    /\ Bob \notin DOMAIN active_sessions
    /\ es[1].pc = "idle"
    /\ now > TTL_HOURS
    /\ ws[1].session_id = Bob
    /\ ws[1].last.type = "state_update"
    /\ \E d \in ws[1].last.data : d.scores[Bob] # ZeroScores

----------------------------------------------------------------------------
(* Properties: participants *)

\* C15: the scores of every session have exactly two keys, the names of its
\* two participants, in every reachable state and so after every
\* update_score of a connection opened with whatever user name.
C15_TwoScoreKeys ==
    \A k \in DOMAIN active_sessions :
       DOMAIN active_sessions[k].scores =
          {active_sessions[k].participant1, active_sessions[k].participant2}

\* C16 as stated: while the session under b exists, register(b, a') with a
\* new name a' fails with ConflictError (409).
C16_FirstNameConflicts ==
    \A b \in DOMAIN active_sessions, a \in Names :
       (a # b /\ a \notin DOMAIN active_sessions) =>
          Register(b, a, active_sessions, now).status = 409

\* C16 amended: while the session under b exists, register(b, a') with another
\* name a' is decided by a' alone: with no session under a' it succeeds and
\* creates the session of b and a' under key a', leaving the session under b
\* as it is; with a session under a' it fails with ConflictError (409).
C16_SecondNameDecides ==
    \A b \in DOMAIN active_sessions, a \in Names :
       a # b =>
          LET r == Register(b, a, active_sessions, now)
          IN  IF a \in DOMAIN active_sessions
              THEN r.status = 409 /\ r.sessions = active_sessions
              ELSE /\ r.status = 201
                   /\ r.session_id = a
                   /\ DOMAIN r.sessions = DOMAIN active_sessions \cup {a}
                   /\ r.sessions[a].participant1 = b
                   /\ r.sessions[a].participant2 = a
                   /\ \A k \in DOMAIN active_sessions : r.sessions[k] = active_sessions[k]

\* register(b, c) has just succeeded while the session of a and b exists
C16_Witness ==
    /\ reply = [op |-> "register", status |-> 201, session_id |-> Carol]
    /\ Bob \in DOMAIN active_sessions
    /\ active_sessions[Bob].participant1 = Alice
    /\ Carol \in DOMAIN active_sessions
    /\ active_sessions[Carol].participant1 = Bob

----------------------------------------------------------------------------
(* Properties: overlapping requests *)

\* C18: of two end_session requests for the same session that overlap, one
\* answers 200 and the other 404, and neither ends in an unhandled error;
\* stated for the runs in which no client goes away, where every send
\* succeeds: every request that is over has answered 200 or 404.
C18_OverlapIsDecided ==
    (\A w \in Sockets : ws[w].open) =>
       \A e \in Enders : es[e].pc = "done" => es[e].status \in {200, 404}

\* C19: when a broadcast returns, every connection that was in the list when
\* it started and is still in it has been sent the message exactly once, and
\* no connection has been sent it twice.
C19_OncePerBroadcast ==
    [][/\ \A w \in Sockets :
             BroadcastReturns(ws[w], ws'[w]) =>
                /\ \A c \in Range(ws[w].bc.targets) \cap
                            Registered(active_connections, ws[w].bc.session_id) :
                      Times(ws[w].bc.sent, c) = 1
                /\ \A c \in Range(ws[w].bc.sent) : Times(ws[w].bc.sent, c) = 1
       /\ \A e \in Enders :
             BroadcastReturns(es[e], es'[e]) =>
                /\ \A c \in Range(es[e].bc.targets) \cap
                            Registered(active_connections, es[e].bc.session_id) :
                      Times(es[e].bc.sent, c) = 1
                /\ \A c \in Range(es[e].bc.sent) : Times(es[e].bc.sent, c) = 1]_vars

\* the handler of socket w leaves its receive loop on a disconnect
Disconnects(w) ==
    /\ ws[w].pc = "receiving"
    /\ ~ws[w].open
    /\ ws'[w].pc # "receiving"

\* C20: the disconnect of a connection ends without an error and removes that
\* connection from the list of its key and nothing else: the store, the other
\* lists and the other connections of its list stay.
C20_DisconnectRemovesOne ==
    [][\A w \in Sockets :
          Disconnects(w) =>
             /\ ws'[w].pc = "done"
             /\ active_sessions' = active_sessions
             /\ DOMAIN active_connections' = DOMAIN active_connections
             /\ \A k \in DOMAIN active_connections :
                   active_connections'[k] =
                      IF k = ws[w].session_id
                      THEN SelectSeq(active_connections[k], LAMBDA x : x # w)
                      ELSE active_connections[k]]_vars

====
